---- MODULE Spec2Model ----
(***************************************************************************)
(* The translation workflow of app/core/langgraph_agent.py: a three-stage  *)
(* graph (content safety check, streamed translation, text to speech) with *)
(* two conditional edges, run either to completion or as a stream of       *)
(* per-node updates.                                                       *)
(***************************************************************************)
EXTENDS Naturals, Sequences, FiniteSets, TLC

(***************************************************************************)
(* Bounds of the model.                                                    *)
(***************************************************************************)
\* Largest severity a moderation category carries in the model.
MaxSeverity == 2
\* Largest number of categories in one moderation response.
MaxCategories == 2
\* Largest number of chunks the translation stream delivers.
MaxChunks == 3

(***************************************************************************)
(* Python values.  A str is a sequence of tokens (the empty sequence is    *)
(* the empty string), bytes likewise, None and bool are tagged.            *)
(***************************************************************************)
None == [t |-> "None"]
Bool(b) == [t |-> "bool", v |-> b]
Str(s) == [t |-> "str", v |-> s]
Bytes(s) == [t |-> "bytes", v |-> s]

\* Python truthiness: `if x` / `not x`.
Truthy(x) ==
  CASE x.t = "None" -> FALSE
    [] x.t = "bool" -> x.v
    [] x.t = "str" -> x.v # <<>>
    [] x.t = "bytes" -> x.v # <<>>

\* dict.get(key) and dict.get(key, default): a missing key reads as the default.
GetOr(d, k, default) == IF k \in DOMAIN d THEN d[k] ELSE default
Get(d, k) == GetOr(d, k, None)

\* The graph merges a node's partial output into the state key by key, the
\* last value written winning (TranslationState declares no reducer).
\* Variant: the output replaces the state.
MergeReplaces(s, u) == u
Merge(s, u) ==
  [k \in DOMAIN s \cup DOMAIN u |-> IF k \in DOMAIN u THEN u[k] ELSE s[k]]

\* One-key and two-key dict literals.
Dict1(k1, v1) == [k \in {k1} |-> v1]
Dict2(k1, v1, k2, v2) == [k \in {k1, k2} |-> IF k = k1 THEN v1 ELSE v2]

(***************************************************************************)
(* constants.py                                                            *)
(***************************************************************************)
SUPPORTED_LANGUAGES_VOICES ==
  [l \in {"Spanish", "French", "Italian", "German", "Japanese"} |->
     CASE l = "Spanish" -> [code |-> "es-ES", voice |-> "es-ES-AlvaroNeural"]
       [] l = "French" -> [code |-> "fr-FR", voice |-> "fr-FR-HenriNeural"]
       [] l = "Italian" -> [code |-> "it-IT", voice |-> "it-IT-DiegoNeural"]
       [] l = "German" -> [code |-> "de-DE", voice |-> "de-DE-ConradNeural"]
       [] l = "Japanese" -> [code |-> "ja-JP", voice |-> "ja-JP-KeitaNeural"]]

\* `name in SUPPORTED_LANGUAGES_VOICES` for a str value.
IsSupportedLanguage(x) ==
  x.t = "str" /\ Len(x.v) = 1 /\ x.v[1] \in DOMAIN SUPPORTED_LANGUAGES_VOICES

(***************************************************************************)
(* The inputs a caller passes and the behaviours of the three providers.   *)
(***************************************************************************)
\* text_to_translate: empty or not.
InputTexts == {<<>>, <<"Hello">>}
\* target_language: empty, the five supported names, one unsupported name.
InputLanguages ==
  {<<>>, <<"Klingon">>} \cup {<<l>> : l \in DOMAIN SUPPORTED_LANGUAGES_VOICES}
Modes == {"invoke", "stream"}

\* str(e) of a raised exception: possibly the empty string.
ErrTexts == {<<>>, <<"boom">>}

Severities == 0 .. MaxSeverity
SeverityLists == UNION {[1 .. n -> Severities] : n \in 0 .. MaxCategories}

\* What the moderation side does for one check: whether the client can be
\* constructed, whether analyze_text raises, and the shape of the result:
\* a categories_analysis list, or the direct hate/self_harm/sexual/violence
\* attributes (`direct` lists the severities of those present), or a result
\* whose inspection raises.
ModerationBehaviour(client, analyze, parse, cats, direct) ==
  [client |-> client, analyze |-> analyze, parse |-> parse,
   categories_analysis |-> cats, direct |-> direct]
ModerationBehaviours ==
  {ModerationBehaviour("raises", "ok", "ok", <<>>, <<>>),
   ModerationBehaviour("ok", "raises", "ok", <<>>, <<>>),
   ModerationBehaviour("ok", "ok", "raises", <<>>, <<>>)}
  \cup {ModerationBehaviour("ok", "ok", "ok", c, <<>>) : c \in SeverityLists \ {<<>>}}
  \cup {ModerationBehaviour("ok", "ok", "ok", <<>>, d) : d \in SeverityLists}

(***************************************************************************)
(* content_safety_check_node                                               *)
(***************************************************************************)
SafeVerdict == Dict2("is_safe", Bool(TRUE), "error_message", None)
UnsafeVerdict ==
  Dict2("error_message", Str(<<"Input text was found to be unsafe.">>),
        "is_safe", Bool(FALSE))
MissingInputVerdict ==
  Dict2("error_message",
        Str(<<"Input text is missing for content safety check.">>),
        "is_safe", Bool(FALSE))

\* Lines 55-77: approach 1 reads categories_analysis when it is non-empty,
\* otherwise approach 2 reads the direct category attributes.
\* Variant: only the first category of the list is inspected.
AnyCategoryUnsafeFirstOnly(mb) ==
  IF mb.categories_analysis # <<>>
  THEN mb.categories_analysis[1] > 0
  ELSE \E i \in DOMAIN mb.direct : mb.direct[i] > 0
AnyCategoryUnsafe(mb) ==
  IF mb.categories_analysis # <<>>
  THEN \E i \in DOMAIN mb.categories_analysis : mb.categories_analysis[i] > 0
  ELSE \E i \in DOMAIN mb.direct : mb.direct[i] > 0

\* Whether the node reaches analyze_text at all.
SafetyCallsProvider(state, mb) ==
  Truthy(Get(state, "original_text")) /\ mb.client = "ok"

\* Variant: a failing moderation side is treated as unsafe.
content_safety_check_nodeFailClosed(state, mb) ==
  IF ~Truthy(Get(state, "original_text")) THEN MissingInputVerdict
  ELSE IF mb.client = "raises" \/ mb.analyze = "raises" \/ mb.parse = "raises"
  THEN UnsafeVerdict
  ELSE IF AnyCategoryUnsafe(mb) THEN UnsafeVerdict
  ELSE SafeVerdict
\* Variant: the check of lines 33-35 is missing.
content_safety_check_nodeNoInputCheck(state, mb) ==
  IF mb.client = "raises" THEN SafeVerdict
  ELSE IF mb.analyze = "raises" THEN SafeVerdict
  ELSE IF mb.parse = "raises" THEN SafeVerdict
  ELSE IF AnyCategoryUnsafe(mb) THEN UnsafeVerdict
  ELSE SafeVerdict
\* Variant: a failing moderation side lets the run continue but leaves a
\* warning in error_message.
content_safety_check_nodeFailOpenWarns(state, mb) ==
  IF ~Truthy(Get(state, "original_text")) THEN MissingInputVerdict
  ELSE IF mb.client = "raises" \/ mb.analyze = "raises" \/ mb.parse = "raises"
  THEN Dict2("is_safe", Bool(TRUE),
             "error_message", Str(<<"Content safety check bypassed.">>))
  ELSE IF AnyCategoryUnsafe(mb) THEN UnsafeVerdict
  ELSE SafeVerdict
content_safety_check_node(state, mb) ==
  IF ~Truthy(Get(state, "original_text")) THEN MissingInputVerdict
  ELSE IF mb.client = "raises" THEN SafeVerdict
  ELSE IF mb.analyze = "raises" THEN SafeVerdict
  ELSE IF mb.parse = "raises" THEN SafeVerdict
  ELSE IF AnyCategoryUnsafe(mb) THEN UnsafeVerdict
  ELSE SafeVerdict

(***************************************************************************)
(* The conditional edges.                                                  *)
(***************************************************************************)
\* Variant: is_safe tested for presence instead of truth.
should_translateIsSafeNotNone(state) ==
  IF Get(state, "is_safe") # None THEN "translate_text" ELSE "__end__"
should_translate(state) ==
  IF Truthy(Get(state, "is_safe")) /\ ~Truthy(Get(state, "error_message"))
  THEN "translate_text"
  ELSE "__end__"

\* Variant: translated_text is not tested.
should_synthesize_speechIgnoresText(state) ==
  IF ~Truthy(Get(state, "error_message")) THEN "text_to_speech" ELSE "__end__"
should_synthesize_speech(state) ==
  IF Truthy(Get(state, "translated_text")) /\ ~Truthy(Get(state, "error_message"))
  THEN "text_to_speech"
  ELSE "__end__"

(***************************************************************************)
(* translate_text_node: a generator.  It runs in segments: the part before *)
(* the loop, one loop iteration per chunk of the provider's stream, the    *)
(* return after the loop, and the except handler.  Every dict the node     *)
(* yields and the dict it returns are outputs of the node, merged into the *)
(* state in the order produced (the comments of lines 139 and 288-289).    *)
(***************************************************************************)
\* A chunk's delta.content: a non-empty fragment, or nothing (the chunk has
\* no choices, no delta or empty content and the loop skips it).
Fragments == {<<"a">>, <<"b">>}
Chunks == Fragments \cup {<<>>}

\* What the translation side does before the stream starts.
TranslationBehaviours ==
  {[client |-> "raises", create |-> "ok", err |-> e] : e \in ErrTexts}
  \cup {[client |-> "ok", create |-> "raises", err |-> e] : e \in ErrTexts}
  \cup {[client |-> "ok", create |-> "ok", err |-> <<>>]}

\* Lines 97-100.
\* Variant: target_language is not tested.
TranslateInputsMissingTextOnly(state) ==
  ~Truthy(Get(state, "original_text"))
TranslateInputsMissing(state) ==
  ~Truthy(Get(state, "original_text")) \/ ~Truthy(Get(state, "target_language"))

\* Whether the node reaches chat.completions.create (line 119).
TranslateCallsProvider(state, tb) ==
  ~TranslateInputsMissing(state) /\ tb.client = "ok"

\* Lines 142-145: the handler reads translated_text from the state the node
\* was called with, not from accumulated_translation.
\* Variant: the handler also withdraws the safety verdict.
TranslateExceptClearsVerdict(state, accumulated_translation, err) ==
  Dict2("error_message", Str(<<"Translation failed: ">> \o err),
        "is_safe", Bool(FALSE))
TranslateExcept(state, accumulated_translation, err) ==
  Dict2("error_message", Str(<<"Translation failed: ">> \o err),
        "translated_text", GetOr(state, "translated_text", Str(<<>>)))

\* Lines 95-130: the node's first segment either returns or enters the loop.
TranslateBeginOutcome(state, tb) ==
  IF TranslateInputsMissing(state)
  THEN [returns |-> TRUE,
        output |-> Dict2("error_message",
                         Str(<<"Original text or target language is missing for translation.">>),
                         "translated_text", Str(<<>>))]
  ELSE IF tb.client = "raises"
  THEN [returns |-> TRUE,
        output |-> Dict2("error_message",
                         Str(<<"Azure OpenAI client initialization failed: ">> \o tb.err),
                         "translated_text", Str(<<>>))]
  ELSE IF tb.create = "raises"
  THEN [returns |-> TRUE, output |-> TranslateExcept(state, <<>>, tb.err)]
  ELSE [returns |-> FALSE, output |-> <<>>]

\* Line 134.
\* Variant: `=` in place of `+=`.
AccumulateDropsPrevious(accumulated_translation, content_piece) == content_piece
Accumulate(accumulated_translation, content_piece) ==
  accumulated_translation \o content_piece

\* Line 136.
TranslateYield(accumulated_translation) ==
  Dict1("translated_text", Str(accumulated_translation))

\* Line 140.
\* Variant: the final return loses the text.
TranslateReturnEmpty(accumulated_translation) ==
  Dict2("translated_text", Str(<<>>), "error_message", None)
TranslateReturn(accumulated_translation) ==
  Dict2("translated_text", Str(accumulated_translation), "error_message", None)

(***************************************************************************)
(* text_to_speech_node                                                     *)
(***************************************************************************)
AudioData == {<<"mp3">>}
ResultReasons == {"SynthesizingAudioCompleted", "Canceled", "SynthesizingAudioStarted"}
CancellationReasons == {"Error", "EndOfStream", "CancelledByUser"}

\* What the speech side does: the value get_speech_config gives ("ok", "none"
\* or "raises"), the value get_speech_synthesizer gives, whether speak raises,
\* and the result.
SpeechBehaviour(config, synthesizer, speak, reason, cancel, details, audio, err) ==
  [config |-> config, synthesizer |-> synthesizer, speak |-> speak,
   reason |-> reason, cancel |-> cancel, details |-> details,
   audio |-> audio, err |-> err]
SpeechBehaviours ==
  {SpeechBehaviour("none", "ok", "ok", "Canceled", "Error", <<>>, <<>>, <<>>)}
  \cup {SpeechBehaviour("raises", "ok", "ok", "Canceled", "Error", <<>>, <<>>, e) :
          e \in ErrTexts}
  \cup {SpeechBehaviour("ok", "none", "ok", "Canceled", "Error", <<>>, <<>>, <<>>)}
  \cup {SpeechBehaviour("ok", "raises", "ok", "Canceled", "Error", <<>>, <<>>, e) :
          e \in ErrTexts}
  \cup {SpeechBehaviour("ok", "ok", "raises", "Canceled", "Error", <<>>, <<>>, e) :
          e \in ErrTexts}
  \cup {SpeechBehaviour("ok", "ok", "ok", "SynthesizingAudioCompleted", "Error", <<>>, a, <<>>) :
          a \in AudioData}
  \cup {SpeechBehaviour("ok", "ok", "ok", "Canceled", c, d, <<>>, <<>>) :
          c \in CancellationReasons, d \in ErrTexts}
  \cup {SpeechBehaviour("ok", "ok", "ok", "SynthesizingAudioStarted", "Error", <<>>, <<>>, <<>>)}

\* Lines 154-165: the three precondition checks, in the order of the code.
\* Variant: the table is not consulted.
SpeechPreconditionNoTableCheck(state) ==
  IF ~Truthy(Get(state, "translated_text")) THEN "translated_text"
  ELSE IF ~Truthy(Get(state, "target_language")) THEN "target_language"
  ELSE "ok"
\* Variant: the language is examined before the text.
SpeechPreconditionLanguageFirst(state) ==
  IF ~Truthy(Get(state, "target_language")) THEN "target_language"
  ELSE IF ~Truthy(Get(state, "translated_text")) THEN "translated_text"
  ELSE IF ~IsSupportedLanguage(state["target_language"]) THEN "unsupported"
  ELSE "ok"
SpeechPrecondition(state) ==
  IF ~Truthy(Get(state, "translated_text")) THEN "translated_text"
  ELSE IF ~Truthy(Get(state, "target_language")) THEN "target_language"
  ELSE IF ~IsSupportedLanguage(state["target_language"]) THEN "unsupported"
  ELSE "ok"

\* Whether the node reaches speak_text_async (line 188).
SpeechCallsProvider(state, sb) ==
  SpeechPrecondition(state) = "ok" /\ sb.config = "ok" /\ sb.synthesizer = "ok"

\* Lines 191-205.
\* Variant: the provider's detail is appended for every cancellation.
SpeechResultAlwaysDetails(sb) ==
  IF sb.reason = "SynthesizingAudioCompleted"
  THEN Dict2("audio_bytes", Bytes(sb.audio), "error_message", None)
  ELSE IF sb.reason = "Canceled"
  THEN Dict2("error_message",
             Str(<<"Speech synthesis canceled: ", sb.cancel>>
                 \o <<" - Error details: ">> \o sb.details),
             "audio_bytes", None)
  ELSE Dict2("error_message",
             Str(<<"Speech synthesis failed with unexpected reason: ", sb.reason>>),
             "audio_bytes", None)
\* Variant: a cancelled synthesis still hands over the audio buffer.
SpeechResultAudioOnCancel(sb) ==
  IF sb.reason = "SynthesizingAudioCompleted"
  THEN Dict2("audio_bytes", Bytes(sb.audio), "error_message", None)
  ELSE IF sb.reason = "Canceled"
  THEN Dict2("error_message",
             Str(<<"Speech synthesis canceled: ", sb.cancel>>
                 \o (IF sb.cancel = "Error"
                     THEN <<" - Error details: ">> \o sb.details
                     ELSE <<>>)),
             "audio_bytes", Bytes(sb.audio))
  ELSE Dict2("error_message",
             Str(<<"Speech synthesis failed with unexpected reason: ", sb.reason>>),
             "audio_bytes", None)
\* Variant: an unexpected reason is reported without a message.
SpeechResultUnknownSilent(sb) ==
  IF sb.reason = "SynthesizingAudioCompleted"
  THEN Dict2("audio_bytes", Bytes(sb.audio), "error_message", None)
  ELSE IF sb.reason = "Canceled"
  THEN Dict2("error_message",
             Str(<<"Speech synthesis canceled: ", sb.cancel>>
                 \o (IF sb.cancel = "Error"
                     THEN <<" - Error details: ">> \o sb.details
                     ELSE <<>>)),
             "audio_bytes", None)
  ELSE Dict2("error_message", None, "audio_bytes", None)
SpeechResult(sb) ==
  IF sb.reason = "SynthesizingAudioCompleted"
  THEN Dict2("audio_bytes", Bytes(sb.audio), "error_message", None)
  ELSE IF sb.reason = "Canceled"
  THEN Dict2("error_message",
             Str(<<"Speech synthesis canceled: ", sb.cancel>>
                 \o (IF sb.cancel = "Error"
                     THEN <<" - Error details: ">> \o sb.details
                     ELSE <<>>)),
             "audio_bytes", None)
  ELSE Dict2("error_message",
             Str(<<"Speech synthesis failed with unexpected reason: ", sb.reason>>),
             "audio_bytes", None)

\* Variant: the handler of line 207 also clears the translation.
text_to_speech_nodeClearsText(state, sb) ==
  CASE SpeechPrecondition(state) = "translated_text" ->
         Dict1("error_message", Str(<<"Translated text is missing for speech synthesis.">>))
    [] SpeechPrecondition(state) = "target_language" ->
         Dict1("error_message", Str(<<"Target language is missing for speech synthesis.">>))
    [] SpeechPrecondition(state) = "unsupported" ->
         Dict1("error_message",
               Str(<<"Language '">> \o state["target_language"].v
                   \o <<"' not supported for TTS.">>))
    [] OTHER ->
         IF sb.config = "raises"
         THEN Dict1("error_message", Str(<<"Speech config error: ">> \o sb.err))
         ELSE IF sb.config = "none"
         THEN Dict1("error_message", Str(<<"Speech config not available for TTS.">>))
         ELSE IF sb.synthesizer = "none"
         THEN Dict1("error_message", Str(<<"Speech synthesizer not available.">>))
         ELSE IF sb.synthesizer = "raises" \/ sb.speak = "raises"
         THEN Dict2("error_message", Str(<<"Text-to-speech failed: ">> \o sb.err),
                    "translated_text", Str(<<>>))
         ELSE SpeechResult(sb)
text_to_speech_node(state, sb) ==
  CASE SpeechPrecondition(state) = "translated_text" ->
         Dict1("error_message", Str(<<"Translated text is missing for speech synthesis.">>))
    [] SpeechPrecondition(state) = "target_language" ->
         Dict1("error_message", Str(<<"Target language is missing for speech synthesis.">>))
    [] SpeechPrecondition(state) = "unsupported" ->
         Dict1("error_message",
               Str(<<"Language '">> \o state["target_language"].v
                   \o <<"' not supported for TTS.">>))
    [] OTHER ->
         IF sb.config = "raises"
         THEN Dict1("error_message", Str(<<"Speech config error: ">> \o sb.err))
         ELSE IF sb.config = "none"
         THEN Dict1("error_message", Str(<<"Speech config not available for TTS.">>))
         ELSE IF sb.synthesizer = "none"
         THEN Dict1("error_message", Str(<<"Speech synthesizer not available.">>))
         ELSE IF sb.synthesizer = "raises" \/ sb.speak = "raises"
         THEN Dict2("error_message", Str(<<"Text-to-speech failed: ">> \o sb.err),
                    "audio_bytes", None)
         ELSE SpeechResult(sb)

(***************************************************************************)
(* The run: the compiled graph driven by run_translation_agent (invoke) or *)
(* run_translation_agent_streaming (stream).                               *)
(***************************************************************************)
VARIABLES
  mode,           \* "invoke" or "stream"
  state,          \* the graph's accumulated TranslationState
  pc,             \* the node scheduled next, or "__end__"
  nodeInput,      \* the `state` argument of the node that is running
  tpc,            \* translate_text_node's position: "idle" or "loop"
  accumulated_translation,  \* translate_text_node's local variable
  updates,        \* the node outputs produced so far, in order
  ran,            \* the nodes started so far, in order
  calls,          \* provider calls made so far
  delivered,      \* the chunks the translation stream has delivered
  streamEnd,      \* how the stream ended: "open", "exhausted", "raised", "none"
  modOutcome,     \* what the moderation side did
  speechOutcome,  \* what the speech side did
  twinState,      \* the state of the same run made in the other mode
  twinPc,         \* the node scheduled next in that run
  twinInput,      \* the `state` argument of the node running in that run
  twinUpdates,    \* the node outputs of that run
  session,        \* main.py: st.session_state (translation, audio_bytes, error_message)
  ui,             \* main.py: "idle", or "running" inside the button's handler
  runs,           \* two calls of the entry point in progress at the same time
  alone           \* the same two calls, each made on its own

vars == <<mode, state, pc, nodeInput, tpc, accumulated_translation, updates,
          ran, calls, delivered, streamEnd, modOutcome, speechOutcome,
          twinState, twinPc, twinInput, twinUpdates, session, ui, runs, alone>>

twinVars == <<twinState, twinPc, twinInput, twinUpdates>>

\* What the graph's own steps leave alone.
extVars == <<session, ui, runs, alone>>

\* main.py, lines 61-66: the session state of a fresh session.
\* user_prompt_main and target_language_name_main are the values of the two
\* widgets (lines 81-87), which the session keeps between reruns.
SessionInit ==
  [translation |-> Str(<<>>), audio_bytes |-> None, error_message |-> Str(<<>>),
   user_prompt_main |-> Str(<<>>), target_language_name_main |-> Str(<<"Spanish">>)]

\* No concurrent calls are in progress.
NoRuns == <<>>

NoModeration == ModerationBehaviour("none", "none", "none", <<>>, <<>>)
NoSpeech == SpeechBehaviour("none", "none", "none", "none", "none", <<>>, <<>>, <<>>)

\* The graph's edges (lines 235-252): the entry point, the two conditional
\* edges with their path maps, and the edge from text_to_speech to END.
EntryPoint == "content_safety_check"

\* Variant: the path map sends "translate_text" to text_to_speech.
AfterSafetySkipsTranslation(s) ==
  IF should_translate(s) = "translate_text" THEN "text_to_speech" ELSE "__end__"
\* Variant: the edge out of the safety stage is unconditional.
AfterSafetyAlwaysTranslates(s) == "translate_text"
AfterSafety(s) ==
  IF should_translate(s) = "translate_text" THEN "translate_text" ELSE "__end__"

\* Variant: a translation that ended with an error is attempted again.
AfterTranslateRetries(s) ==
  IF should_synthesize_speech(s) = "text_to_speech" THEN "text_to_speech"
  ELSE IF Truthy(Get(s, "error_message")) THEN "translate_text"
  ELSE "__end__"
AfterTranslate(s) ==
  IF should_synthesize_speech(s) = "text_to_speech" THEN "text_to_speech" ELSE "__end__"

\* Variant: the edge from text_to_speech leads back to the entry point.
AfterSpeechLoops == "content_safety_check"
AfterSpeech == "__end__"

\* The step ceiling the runner is given (line 290).
RecursionLimit == 25

\* translate_text_node (line 95) and text_to_speech_node (line 152) read
\* state['target_language'] before their try block: a state without the key
\* makes the node raise into the runner.
NodeEscapes(node, s) ==
  /\ node \in {"translate_text", "text_to_speech"}
  /\ "target_language" \notin DOMAIN s

OtherMode(m) == IF m = "invoke" THEN "stream" ELSE "invoke"

\* initial_state of run_translation_agent (lines 263-266) and of
\* run_translation_agent_streaming (lines 280-287).
\* Variant: run_translation_agent leaves target_language out.
InitialStateNoLanguage(m, text, language) ==
  IF m = "invoke"
  THEN Dict1("original_text", Str(text))
  ELSE [k \in {"original_text", "target_language", "translated_text",
               "audio_bytes", "error_message", "is_safe"} |->
          CASE k = "original_text" -> Str(text)
            [] k = "target_language" -> Str(language)
            [] k = "translated_text" -> Str(<<>>)
            [] OTHER -> None]
InitialState(m, text, language) ==
  IF m = "invoke"
  THEN Dict2("original_text", Str(text), "target_language", Str(language))
  ELSE [k \in {"original_text", "target_language", "translated_text",
               "audio_bytes", "error_message", "is_safe"} |->
          CASE k = "original_text" -> Str(text)
            [] k = "target_language" -> Str(language)
            [] k = "translated_text" -> Str(<<>>)
            [] OTHER -> None]

Init ==
  /\ mode \in Modes
  /\ \E text \in InputTexts, language \in InputLanguages :
       /\ state = InitialState(mode, text, language)
       /\ nodeInput = InitialState(mode, text, language)
       /\ twinState = InitialState(OtherMode(mode), text, language)
  /\ pc = EntryPoint
  /\ tpc = "idle"
  /\ accumulated_translation = <<>>
  /\ updates = <<>>
  /\ ran = <<>>
  /\ calls = [moderation |-> 0, translation |-> 0, speech |-> 0]
  /\ delivered = <<>>
  /\ streamEnd = "none"
  /\ modOutcome = NoModeration
  /\ speechOutcome = NoSpeech
  /\ twinInput = twinState
  /\ twinPc = EntryPoint
  /\ twinUpdates = <<>>
  /\ session = SessionInit
  /\ ui = "idle"
  /\ runs = NoRuns
  /\ alone = NoRuns

\* A node output is merged into the state and surfaced as a stream event.
Emit(node, output) ==
  /\ state' = Merge(state, output)
  /\ updates' = Append(updates, [node |-> node, output |-> output])

\* A node returns: its output is merged, then the edge out of the node picks
\* the next node, which is called with the merged state.
Return(node, output, next) ==
  /\ Emit(node, output)
  /\ pc' = next
  /\ nodeInput' = Merge(state, output)

\* The same for the run in the other mode, which is given the same inputs
\* and meets the same provider behaviour at every step.
TwinEmit(node, output) ==
  /\ twinState' = Merge(twinState, output)
  /\ twinUpdates' = Append(twinUpdates, [node |-> node, output |-> output])

TwinReturn(node, output, next) ==
  /\ TwinEmit(node, output)
  /\ twinPc' = next
  /\ twinInput' = Merge(twinState, output)

\* A node raises into the runner: the run is over, with no output.
Escape ==
  /\ pc' = "raised"
  /\ twinPc' = "raised"
  /\ UNCHANGED <<state, updates, nodeInput, twinState, twinInput, twinUpdates>>

\* content_safety_check_node and the edge out of it.
SafetyStage ==
  /\ pc = "content_safety_check"
  /\ Len(ran) < RecursionLimit
  /\ \E mb \in ModerationBehaviours :
       LET output == content_safety_check_node(nodeInput, mb) IN
         /\ Return("content_safety_check", output,
                   AfterSafety(Merge(state, output)))
         /\ LET twinOutput == content_safety_check_node(twinInput, mb) IN
              TwinReturn("content_safety_check", twinOutput,
                         AfterSafety(Merge(twinState, twinOutput)))
         /\ modOutcome' = IF Truthy(Get(nodeInput, "original_text"))
                          THEN mb ELSE NoModeration
         /\ calls' = [calls EXCEPT !.moderation =
                        IF SafetyCallsProvider(nodeInput, mb) THEN @ + 1 ELSE @]
  /\ ran' = Append(ran, "content_safety_check")
  /\ UNCHANGED extVars
  /\ UNCHANGED <<mode, tpc, accumulated_translation, delivered, streamEnd,
                 speechOutcome>>

\* translate_text_node up to the loop (lines 95-130), and the edge out of
\* the node when it returns here.
TranslateBegin ==
  /\ pc = "translate_text" /\ tpc = "idle"
  /\ Len(ran) < RecursionLimit
  /\ \E tb \in TranslationBehaviours :
       LET r == TranslateBeginOutcome(nodeInput, tb)
           twin == TranslateBeginOutcome(twinInput, tb)
       IN
         IF NodeEscapes("translate_text", nodeInput)
         THEN Escape /\ UNCHANGED <<tpc, streamEnd, calls>>
         ELSE
           /\ IF r.returns
              THEN /\ Return("translate_text", r.output,
                             AfterTranslate(Merge(state, r.output)))
                   /\ UNCHANGED <<tpc, streamEnd>>
              ELSE /\ tpc' = "loop"
                   /\ streamEnd' = "open"
                   /\ UNCHANGED <<state, updates, pc, nodeInput>>
           /\ IF twin.returns
              THEN TwinReturn("translate_text", twin.output,
                              AfterTranslate(Merge(twinState, twin.output)))
              ELSE UNCHANGED twinVars
           /\ calls' = [calls EXCEPT !.translation =
                          IF TranslateCallsProvider(nodeInput, tb) THEN @ + 1 ELSE @]
  /\ accumulated_translation' = <<>>
  /\ ran' = Append(ran, "translate_text")
  /\ UNCHANGED extVars
  /\ UNCHANGED <<mode, delivered, modOutcome, speechOutcome>>

\* One iteration of the loop (lines 131-136): the stream delivers a chunk; a
\* chunk with content extends accumulated_translation and is yielded.
TranslateChunk ==
  /\ pc = "translate_text" /\ tpc = "loop"
  /\ Len(delivered) < MaxChunks
  /\ \E content_piece \in Chunks :
       /\ delivered' = Append(delivered, content_piece)
       /\ IF content_piece # <<>>
          THEN /\ accumulated_translation' =
                    Accumulate(accumulated_translation, content_piece)
               /\ Emit("translate_text",
                       TranslateYield(Accumulate(accumulated_translation, content_piece)))
               /\ TwinEmit("translate_text",
                           TranslateYield(Accumulate(accumulated_translation, content_piece)))
               /\ UNCHANGED <<twinPc, twinInput>>
          ELSE UNCHANGED <<accumulated_translation, state, updates, twinVars>>
  /\ UNCHANGED extVars
  /\ UNCHANGED <<mode, pc, nodeInput, tpc, ran, calls, streamEnd, modOutcome,
                 speechOutcome>>

\* The stream is exhausted: the return of line 140, then the edge.
TranslateEnd ==
  /\ pc = "translate_text" /\ tpc = "loop"
  /\ LET output == TranslateReturn(accumulated_translation) IN
       /\ Return("translate_text", output,
                 AfterTranslate(Merge(state, output)))
       /\ TwinReturn("translate_text", output,
                     AfterTranslate(Merge(twinState, output)))
  /\ tpc' = "idle"
  /\ streamEnd' = "exhausted"
  /\ UNCHANGED extVars
  /\ UNCHANGED <<mode, accumulated_translation, ran, calls, delivered,
                 modOutcome, speechOutcome>>

\* The stream raises: the handler of lines 142-145, then the edge.
TranslateRaise ==
  /\ pc = "translate_text" /\ tpc = "loop"
  /\ \E err \in ErrTexts :
       LET output == TranslateExcept(nodeInput, accumulated_translation, err)
           twinOutput == TranslateExcept(twinInput, accumulated_translation, err)
       IN
         /\ Return("translate_text", output,
                   AfterTranslate(Merge(state, output)))
         /\ TwinReturn("translate_text", twinOutput,
                       AfterTranslate(Merge(twinState, twinOutput)))
  /\ tpc' = "idle"
  /\ streamEnd' = "raised"
  /\ UNCHANGED extVars
  /\ UNCHANGED <<mode, accumulated_translation, ran, calls, delivered,
                 modOutcome, speechOutcome>>

\* text_to_speech_node and the edge out of it.
TextToSpeechStage ==
  /\ pc = "text_to_speech"
  /\ Len(ran) < RecursionLimit
  /\ \E sb \in SpeechBehaviours :
       IF NodeEscapes("text_to_speech", nodeInput)
       THEN Escape /\ UNCHANGED <<speechOutcome, calls>>
       ELSE
         /\ Return("text_to_speech", text_to_speech_node(nodeInput, sb), AfterSpeech)
         /\ TwinReturn("text_to_speech", text_to_speech_node(twinInput, sb), AfterSpeech)
         /\ speechOutcome' = sb
         /\ calls' = [calls EXCEPT !.speech =
                        IF SpeechCallsProvider(nodeInput, sb) THEN @ + 1 ELSE @]
  /\ ran' = Append(ran, "text_to_speech")
  /\ UNCHANGED extVars
  /\ UNCHANGED <<mode, tpc, accumulated_translation, delivered, streamEnd,
                 modOutcome>>

Next ==
  \/ SafetyStage
  \/ TranslateBegin
  \/ TranslateChunk
  \/ TranslateEnd
  \/ TranslateRaise
  \/ TextToSpeechStage

Spec == Init /\ [][Next]_vars

(***************************************************************************)
(* Two calls of the entry points in progress at the same time (two         *)
(* sessions of the app share the module, hence app_translator).  Each call *)
(* builds its own initial_state (lines 263-266, 280-287) and the graph     *)
(* keeps the state of a call apart from that of any other call; the nodes  *)
(* write no module-level name, and the clients are built anew on each call *)
(* (azure_clients.py).  A step is one stage of one of the calls.           *)
(***************************************************************************)
\* No run of the graph is in progress in the variables of the single run.
RunIdle ==
  /\ mode = "stream"
  /\ state = InitialState("stream", <<>>, <<>>)
  /\ nodeInput = state
  /\ pc = "__end__"
  /\ tpc = "idle"
  /\ accumulated_translation = <<>>
  /\ updates = <<>>
  /\ ran = <<>>
  /\ calls = [moderation |-> 0, translation |-> 0, speech |-> 0]
  /\ delivered = <<>>
  /\ streamEnd = "none"
  /\ modOutcome = NoModeration
  /\ speechOutcome = NoSpeech
  /\ twinState = InitialState("invoke", <<>>, <<>>)
  /\ twinInput = twinState
  /\ twinPc = "__end__"
  /\ twinUpdates = <<>>

\* What the translation stream does over a whole call of the node.
TranslationStreams ==
  {[chunks |-> c, raises |-> FALSE, err |-> <<>>] :
     c \in {<<>>, << <<"a">> >>, << <<"a">>, <<>>, <<"b">> >>}}
  \cup {[chunks |-> c, raises |-> TRUE, err |-> e] :
          c \in {<<>>, << <<"a">> >>}, e \in ErrTexts}

\* Lines 130-136 over a whole stream: the value of accumulated_translation
\* after the chunks.
RECURSIVE TranslateLoop(_, _)
TranslateLoop(chunks, accumulated) ==
  IF chunks = <<>>
  THEN accumulated
  ELSE TranslateLoop(Tail(chunks),
                     IF Head(chunks) # <<>>
                     THEN Accumulate(accumulated, Head(chunks))
                     ELSE accumulated)

\* translate_text_node as one step: the dict it returns.  Every key a yield
\* writes is written again by the return, so merging the return alone gives
\* the state after the node.
translate_text_node(s, tb, stream) ==
  IF TranslateBeginOutcome(s, tb).returns
  THEN TranslateBeginOutcome(s, tb).output
  ELSE IF stream.raises
  THEN TranslateExcept(s, TranslateLoop(stream.chunks, <<>>), stream.err)
  ELSE TranslateReturn(TranslateLoop(stream.chunks, <<>>))

\* The calls made at the same time: the entry point and its arguments.
ConcurrentCalls ==
  {[m |-> "invoke", text |-> <<"Hello">>, language |-> <<"Spanish">>],
   [m |-> "stream", text |-> <<"Hello">>, language |-> <<"French">>],
   [m |-> "stream", text |-> <<"Hello">>, language |-> <<"Klingon">>],
   [m |-> "invoke", text |-> <<>>, language |-> <<"Spanish">>]}

RunIds == {1, 2}

\* The graph merges the output of a node of call r into the state of call r.
\* Variant: the state is one object shared by the calls.
RunWriteShared(rs, r, output, next) ==
  [q \in DOMAIN rs |->
     [state |-> Merge(rs[q].state, output),
      pc |-> IF q = r THEN next ELSE rs[q].pc]]
RunWrite(rs, r, output, next) ==
  [rs EXCEPT ![r] = [state |-> Merge(rs[r].state, output), pc |-> next]]

IsolationInit ==
  /\ RunIdle
  /\ session = SessionInit
  /\ ui = "idle"
  /\ \E c1 \in ConcurrentCalls, c2 \in ConcurrentCalls :
       /\ <<c1.text, c1.language>> # <<c2.text, c2.language>>
       /\ runs = [r \in RunIds |->
                    [state |-> IF r = 1 THEN InitialState(c1.m, c1.text, c1.language)
                                        ELSE InitialState(c2.m, c2.text, c2.language),
                     pc |-> EntryPoint]]
  /\ alone = runs

\* A stage of call r, next to the same stage of the same call made on its
\* own with the same provider behaviour.
ConcurrentStep(r, output, next, outputAlone, nextAlone) ==
  /\ runs' = RunWrite(runs, r, output, next)
  /\ alone' = [alone EXCEPT ![r] = [state |-> Merge(alone[r].state, outputAlone),
                                    pc |-> nextAlone]]
  /\ UNCHANGED <<mode, state, pc, nodeInput, tpc, accumulated_translation,
                 updates, ran, calls, delivered, streamEnd, modOutcome,
                 speechOutcome, twinVars, session, ui>>

ConcurrentSafety ==
  \E r \in RunIds, mb \in ModerationBehaviours :
    /\ runs[r].pc = "content_safety_check"
    /\ LET output == content_safety_check_node(runs[r].state, mb)
           outputAlone == content_safety_check_node(alone[r].state, mb)
       IN  ConcurrentStep(r, output, AfterSafety(Merge(runs[r].state, output)),
                          outputAlone, AfterSafety(Merge(alone[r].state, outputAlone)))

ConcurrentTranslate ==
  \E r \in RunIds, tb \in TranslationBehaviours, stream \in TranslationStreams :
    /\ runs[r].pc = "translate_text"
    /\ LET output == translate_text_node(runs[r].state, tb, stream)
           outputAlone == translate_text_node(alone[r].state, tb, stream)
       IN  ConcurrentStep(r, output, AfterTranslate(Merge(runs[r].state, output)),
                          outputAlone, AfterTranslate(Merge(alone[r].state, outputAlone)))

ConcurrentSpeech ==
  \E r \in RunIds, sb \in SpeechBehaviours :
    /\ runs[r].pc = "text_to_speech"
    /\ ConcurrentStep(r, text_to_speech_node(runs[r].state, sb), AfterSpeech,
                      text_to_speech_node(alone[r].state, sb), AfterSpeech)

IsolationNext ==
  \/ ConcurrentSafety
  \/ ConcurrentTranslate
  \/ ConcurrentSpeech

IsolationSpec == IsolationInit /\ [][IsolationNext]_vars

(***************************************************************************)
(* main.py, lines 112-132: the caller of the incremental mode starts from   *)
(* an empty dict and updates it with the output of every event, in order.   *)
(***************************************************************************)
\* Variant: the caller keeps the output of the latest event only.
AccumulatedGraphStateLatestOnly(events) ==
  IF events = <<>> THEN <<>> ELSE events[Len(events)].output
RECURSIVE AccumulatedGraphState(_)
AccumulatedGraphState(events) ==
  IF events = <<>>
  THEN <<>>
  ELSE Merge(AccumulatedGraphState(SubSeq(events, 1, Len(events) - 1)),
             events[Len(events)].output)

(***************************************************************************)
(* main.py, lines 81-203: the "Translate and Speak" button.  A click runs   *)
(* the handler to its end before the next click is served: it resets the   *)
(* session, refuses an empty prompt, otherwise consumes the stream of      *)
(* run_translation_agent_streaming and processes the accumulated state.    *)
(***************************************************************************)
\* Line 83: the selectbox offers the keys of the table.
UILanguages == {<<l>> : l \in DOMAIN SUPPORTED_LANGUAGES_VOICES}

\* Line 95.
\* Variant: the prompt is not examined.
PromptMissingNever(user_prompt_main) == FALSE
PromptMissing(user_prompt_main) == ~Truthy(Str(user_prompt_main))

\* Lines 90-92, with the widget values of this click.
SessionReset(user_prompt_main, target_language_name_main) ==
  [translation |-> Str(<<>>), audio_bytes |-> None, error_message |-> Str(<<>>),
   user_prompt_main |-> Str(user_prompt_main),
   target_language_name_main |-> Str(target_language_name_main)]

\* Lines 163-196: what the handler stores from final_agent_state.
\* Variant: the translation and the audio are stored even with an error.
ProcessFinalStateKeepsTranslation(s, final_agent_state) ==
  IF DOMAIN final_agent_state = {}
  THEN [s EXCEPT !.error_message =
                   Str(<<"Translation agent did not return a final state (stream processing issue).">>),
                 !.translation = Str(<<>>),
                 !.audio_bytes = None]
  ELSE [s EXCEPT !.error_message =
                   IF Truthy(Get(final_agent_state, "error_message"))
                   THEN final_agent_state["error_message"] ELSE @,
                 !.translation =
                   IF Truthy(GetOr(final_agent_state, "translated_text", Str(<<>>)))
                   THEN final_agent_state["translated_text"] ELSE Str(<<>>),
                 !.audio_bytes =
                   IF Truthy(Get(final_agent_state, "audio_bytes"))
                   THEN final_agent_state["audio_bytes"] ELSE None]
ProcessFinalState(s, final_agent_state) ==
  IF DOMAIN final_agent_state = {}
  THEN [s EXCEPT !.error_message =
                   Str(<<"Translation agent did not return a final state (stream processing issue).">>),
                 !.translation = Str(<<>>),
                 !.audio_bytes = None]
  ELSE IF Truthy(Get(final_agent_state, "error_message"))
  THEN [s EXCEPT !.error_message = final_agent_state["error_message"],
                 !.translation = Str(<<>>),
                 !.audio_bytes = None]
  ELSE IF Truthy(GetOr(final_agent_state, "translated_text", Str(<<>>)))
  THEN [s EXCEPT !.translation = final_agent_state["translated_text"],
                 !.audio_bytes =
                   IF Truthy(Get(final_agent_state, "audio_bytes"))
                   THEN final_agent_state["audio_bytes"] ELSE None]
  ELSE [s EXCEPT !.translation = Str(<<>>), !.audio_bytes = None]

\* Lines 198-203.
HandlerExcept(s) ==
  [s EXCEPT !.error_message = Str(<<"An unexpected error occurred: ">>),
            !.translation = Str(<<>>),
            !.audio_bytes = None]

\* The variables of the single run are as RunIdle has them.
RunGone ==
  /\ mode' = "stream"
  /\ state' = InitialState("stream", <<>>, <<>>)
  /\ nodeInput' = InitialState("stream", <<>>, <<>>)
  /\ pc' = "__end__"
  /\ tpc' = "idle"
  /\ accumulated_translation' = <<>>
  /\ updates' = <<>>
  /\ ran' = <<>>
  /\ calls' = [moderation |-> 0, translation |-> 0, speech |-> 0]
  /\ delivered' = <<>>
  /\ streamEnd' = "none"
  /\ modOutcome' = NoModeration
  /\ speechOutcome' = NoSpeech
  /\ twinState' = InitialState("invoke", <<>>, <<>>)
  /\ twinInput' = InitialState("invoke", <<>>, <<>>)
  /\ twinPc' = "__end__"
  /\ twinUpdates' = <<>>

UIInit ==
  /\ RunIdle
  /\ session = SessionInit
  /\ ui = "idle"
  /\ runs = NoRuns
  /\ alone = NoRuns

\* Lines 89-115: the click, up to the call of run_translation_agent_streaming.
UIClick ==
  /\ ui = "idle"
  /\ \E user_prompt_main \in InputTexts, target_language_name_main \in UILanguages :
       IF PromptMissing(user_prompt_main)
       THEN /\ session' =
                 [SessionReset(user_prompt_main, target_language_name_main)
                    EXCEPT !.error_message = Str(<<"Please enter some text to translate.">>)]
            /\ UNCHANGED <<ui, mode, state, pc, nodeInput, tpc, accumulated_translation,
                           updates, ran, calls, delivered, streamEnd, modOutcome,
                           speechOutcome, twinVars>>
       ELSE /\ session' = SessionReset(user_prompt_main, target_language_name_main)
            /\ ui' = "running"
            /\ mode' = "stream"
            /\ state' = InitialState("stream", user_prompt_main, target_language_name_main)
            /\ nodeInput' = state'
            /\ pc' = EntryPoint
            /\ tpc' = "idle"
            /\ accumulated_translation' = <<>>
            /\ updates' = <<>>
            /\ ran' = <<>>
            /\ calls' = [moderation |-> 0, translation |-> 0, speech |-> 0]
            /\ delivered' = <<>>
            /\ streamEnd' = "none"
            /\ modOutcome' = NoModeration
            /\ speechOutcome' = NoSpeech
            /\ twinState' = InitialState("invoke", user_prompt_main, target_language_name_main)
            /\ twinInput' = twinState'
            /\ twinPc' = EntryPoint
            /\ twinUpdates' = <<>>
  /\ UNCHANGED <<runs, alone>>

\* Lines 112-203 once the stream is exhausted (or has raised): the final
\* state processing, or the handler of line 198.  The run and the handler's
\* local names are gone when the handler returns.
UIFinish ==
  /\ ui = "running"
  /\ pc \in {"__end__", "raised"}
  /\ session' = IF pc = "raised"
                THEN HandlerExcept(session)
                ELSE ProcessFinalState(session, AccumulatedGraphState(updates))
  /\ ui' = "idle"
  /\ RunGone
  /\ UNCHANGED <<runs, alone>>

UINext ==
  \/ UIClick
  \/ UIFinish
  \/ SafetyStage
  \/ TranslateBegin
  \/ TranslateChunk
  \/ TranslateEnd
  \/ TranslateRaise
  \/ TextToSpeechStage

UISpec == UIInit /\ [][UINext]_vars

(***************************************************************************)
(* The stage functions on their own: any of the three nodes is called with *)
(* a state of either shape whose translated_text is missing, None, empty   *)
(* or a text, and the graph goes on from there.                            *)
(***************************************************************************)
NodeInputTranslations == {None, Str(<<>>), Str(<<"a">>)}

NodeInputStates ==
  {InitialState("invoke", text, language) :
     text \in InputTexts, language \in InputLanguages}
  \cup {Merge(InitialState("stream", text, language), Dict1("translated_text", x)) :
          text \in InputTexts, language \in InputLanguages,
          x \in NodeInputTranslations}

InitNode ==
  /\ state \in NodeInputStates
  /\ mode = IF "translated_text" \in DOMAIN state THEN "stream" ELSE "invoke"
  /\ nodeInput = state
  /\ pc \in {"content_safety_check", "translate_text", "text_to_speech"}
  /\ tpc = "idle"
  /\ accumulated_translation = <<>>
  /\ updates = <<>>
  /\ ran = <<>>
  /\ calls = [moderation |-> 0, translation |-> 0, speech |-> 0]
  /\ delivered = <<>>
  /\ streamEnd = "none"
  /\ modOutcome = NoModeration
  /\ speechOutcome = NoSpeech
  /\ twinState = state
  /\ twinInput = state
  /\ twinPc = pc
  /\ twinUpdates = <<>>
  /\ session = SessionInit
  /\ ui = "idle"
  /\ runs = NoRuns
  /\ alone = NoRuns

NodeSpec == InitNode /\ [][Next]_vars

(***************************************************************************)
(* Helpers of the properties.                                              *)
(***************************************************************************)
Range(f) == {f[i] : i \in DOMAIN f}

\* A field holds nothing: the key is missing, None, or the empty string.
IsUnset(d, k) == Get(d, k) = None \/ Get(d, k) = Str(<<>>)

\* Some category of the response has a severity above 0.
RespondsWithSeverity(mb) ==
  /\ mb.client = "ok" /\ mb.analyze = "ok" /\ mb.parse = "ok"
  /\ \/ \E i \in DOMAIN mb.categories_analysis : mb.categories_analysis[i] > 0
     \/ \E i \in DOMAIN mb.direct : mb.direct[i] > 0

\* The output of the safety stage, once it has run.
SafetyOutput == updates[1].output

ModerationFailed(mb) == mb.client = "raises" \/ mb.analyze = "raises"

StageOrder == <<"content_safety_check", "translate_text", "text_to_speech">>

\* The concatenation of the chunks of a stream.
RECURSIVE Concat(_)
Concat(chunks) ==
  IF chunks = <<>> THEN <<>> ELSE Head(chunks) \o Concat(Tail(chunks))

\* The chunks that carry content.
IsContent(c) == c # <<>>
ContentChunks(chunks) == SelectSeq(chunks, IsContent)

IsPrefix(a, b) == Len(a) <= Len(b) /\ a = SubSeq(b, 1, Len(a))

\* The updates the translation stage has produced, in order.
IsTranslateUpdate(u) == u.node = "translate_text"
TranslateUpdates == SelectSeq(updates, IsTranslateUpdate)

ModerationClean(mb) ==
  /\ mb.client = "ok" /\ mb.analyze = "ok" /\ mb.parse = "ok"
  /\ ~RespondsWithSeverity(mb)

SpeechCompleted(sb) ==
  /\ sb.config = "ok" /\ sb.synthesizer = "ok" /\ sb.speak = "ok"
  /\ sb.reason = "SynthesizingAudioCompleted"

(***************************************************************************)
(* Properties.                                                             *)
(***************************************************************************)

\* C1: when the safety stage finishes, the next node is translate_text if and
\* only if the merged state has is_safe = True and an empty or unset
\* error_message; otherwise the run is at END, and translate_text is started
\* from nowhere else than that scheduling.
C1_SafetyGate ==
  [][/\ pc = "content_safety_check" =>
          /\ pc' \in {"translate_text", "__end__"}
          /\ pc' = "translate_text" <=>
               (Get(state', "is_safe") = Bool(TRUE) /\ IsUnset(state', "error_message"))
     /\ pc = "__end__" => UNCHANGED vars
     /\ ("translate_text" \in Range(ran') /\ "translate_text" \notin Range(ran)) =>
          pc = "translate_text"]_vars

C1_Witness ==
  /\ ran = <<"content_safety_check">>
  /\ pc = "translate_text"
  /\ Get(state, "is_safe") = Bool(TRUE)

\* C2: when the translation stage finishes, the next node is text_to_speech
\* if and only if the merged state has a non-empty translated_text and an
\* empty or unset error_message; otherwise the run is at END, and
\* text_to_speech is started from nowhere else than that scheduling.
C2_TranslationGate ==
  [][/\ (pc = "translate_text" /\ pc' # "translate_text") =>
          /\ pc' \in {"text_to_speech", "__end__"}
          /\ pc' = "text_to_speech" <=>
               (~IsUnset(state', "translated_text") /\ IsUnset(state', "error_message"))
     /\ pc = "__end__" => UNCHANGED vars
     /\ ("text_to_speech" \in Range(ran') /\ "text_to_speech" \notin Range(ran)) =>
          pc = "text_to_speech"]_vars

C2_Witness ==
  /\ ran = <<"content_safety_check", "translate_text">>
  /\ pc = "text_to_speech"
  /\ streamEnd = "exhausted"

\* C3: the stages started so far are always an initial part of the order
\* safety, translation, synthesis (so none runs twice or out of order), the
\* scheduled node is the one that follows the stages already started, and
\* after synthesis the run is at END.
C3_LinearOrder ==
  /\ Len(ran) <= 3
  /\ ran = SubSeq(StageOrder, 1, Len(ran))
  /\ pc = "content_safety_check" => ran = <<>>
  /\ pc = "translate_text" => Len(ran) \in {1, 2}
  /\ (pc = "translate_text" /\ Len(ran) = 2) => tpc = "loop"
  /\ pc = "text_to_speech" => (Len(ran) = 2 /\ tpc = "idle")
  /\ Len(ran) = 3 => pc = "__end__"
  /\ pc = "__end__" => (Len(ran) >= 1 /\ tpc = "idle")

C3_Witness ==
  /\ ran = StageOrder
  /\ pc = "__end__"

\* C4: if the moderation client cannot be constructed or analyze_text raises,
\* the safety stage returns is_safe = True with error_message None and the
\* run goes on to the translation stage.
C4_FailOpen ==
  ModerationFailed(modOutcome) =>
    /\ SafetyOutput = Dict2("is_safe", Bool(TRUE), "error_message", None)
    /\ Get(state, "is_safe") = Bool(TRUE)
    /\ pc = "translate_text" \/ "translate_text" \in Range(ran)

C4_Witness ==
  /\ modOutcome.analyze = "raises"
  /\ pc = "translate_text"
  /\ tpc = "loop"

\* C5: a run whose original_text is empty gets is_safe = False and a
\* non-empty error_message from the safety stage, the moderation provider
\* and the translation provider are never called, and the run ends without
\* the translation stage.
C5_EmptyInput ==
  (~Truthy(Get(state, "original_text")) /\ ran # <<>>) =>
    /\ SafetyOutput["is_safe"] = Bool(FALSE)
    /\ Truthy(SafetyOutput["error_message"])
    /\ Get(state, "is_safe") = Bool(FALSE)
    /\ Truthy(Get(state, "error_message"))
    /\ calls.moderation = 0
    /\ calls.translation = 0
    /\ ran = <<"content_safety_check">>
    /\ pc = "__end__"

C5_Witness ==
  /\ Get(state, "original_text") = Str(<<>>)
  /\ pc = "__end__"
  /\ modOutcome = NoModeration

\* C6: when the moderation provider responds with some category of severity
\* above 0, the run is at END with is_safe = False and a non-empty
\* error_message, translated_text and audio_bytes hold nothing, and neither
\* the translation provider nor the speech provider has been called.
C6_UnsafeBlocks ==
  RespondsWithSeverity(modOutcome) =>
    /\ pc = "__end__"
    /\ Get(state, "is_safe") = Bool(FALSE)
    /\ Truthy(Get(state, "error_message"))
    /\ IsUnset(state, "translated_text")
    /\ IsUnset(state, "audio_bytes")
    /\ calls.translation = 0
    /\ calls.speech = 0
    /\ ran = <<"content_safety_check">>

C6_Witness ==
  /\ RespondsWithSeverity(modOutcome)
  /\ Len(modOutcome.categories_analysis) = 2
  /\ modOutcome.categories_analysis[1] = 0
  /\ pc = "__end__"

\* C7: a run in which moderation reports no category above 0, the stream is
\* exhausted with a non-empty text, target_language is in the table and the
\* speech provider reports completion ends with is_safe = True,
\* translated_text the concatenation of all the fragments delivered,
\* audio_bytes the provider's audio and error_message None.
C7_FullSuccess ==
  ( /\ pc = "__end__"
    /\ ModerationClean(modOutcome)
    /\ streamEnd = "exhausted"
    /\ Concat(delivered) # <<>>
    /\ IsSupportedLanguage(Get(state, "target_language"))
    /\ SpeechCompleted(speechOutcome) ) =>
    /\ Get(state, "is_safe") = Bool(TRUE)
    /\ Get(state, "translated_text") = Str(Concat(delivered))
    /\ Get(state, "audio_bytes") = Bytes(speechOutcome.audio)
    /\ Get(state, "error_message") = None
    /\ ran = StageOrder

C7_Witness ==
  /\ pc = "__end__"
  /\ ModerationClean(modOutcome)
  /\ streamEnd = "exhausted"
  /\ Len(ContentChunks(delivered)) >= 2
  /\ SpeechCompleted(speechOutcome)
  /\ Truthy(Get(state, "audio_bytes"))

\* C8: when the stream raises after delivering one or more fragments, the
\* run ends with a non-empty error_message, translated_text equal to the text
\* accumulated before the failure, audio_bytes unset, and text_to_speech
\* never started.
C8_PartialTextKept ==
  (streamEnd = "raised" /\ accumulated_translation # <<>>) =>
    /\ Truthy(Get(state, "error_message"))
    /\ Get(state, "translated_text") = Str(accumulated_translation)
    /\ IsUnset(state, "audio_bytes")
    /\ "text_to_speech" \notin Range(ran)
    /\ pc = "__end__"

\* C9: in stream mode every update of the translation stage carries a
\* translated_text that extends the translated_text of the update before it:
\* never shorter, never unrelated, from the first update to the last.
C9_StreamingMonotone ==
  mode = "stream" =>
    \A i \in 1 .. Len(TranslateUpdates) - 1 :
      IsPrefix(TranslateUpdates[i].output["translated_text"].v,
               TranslateUpdates[i + 1].output["translated_text"].v)

\* C10: when the stream is exhausted, the last update of the translation
\* stage carries the concatenation of all fragments and error_message None,
\* it follows one update per fragment, and it is merged into the state that
\* the edge out of translate_text reads.
C10_FinalUpdate ==
  streamEnd = "exhausted" =>
    LET tu == TranslateUpdates IN
      /\ Len(tu) = Len(ContentChunks(delivered)) + 1
      /\ tu[Len(tu)].output =
           Dict2("translated_text", Str(Concat(delivered)), "error_message", None)
      /\ \A i \in 1 .. Len(tu) - 1 :
           tu[i].output =
             Dict1("translated_text",
                   Str(Concat(SubSeq(ContentChunks(delivered), 1, i))))
      /\ Len(ran) = 2 =>
           /\ Get(state, "translated_text") = Str(Concat(delivered))
           /\ Get(state, "error_message") = None
           /\ pc = IF Concat(delivered) # <<>> THEN "text_to_speech" ELSE "__end__"

C10_Witness ==
  /\ streamEnd = "exhausted"
  /\ Len(ContentChunks(delivered)) >= 2
  /\ Len(ran) = 2
  /\ pc = "text_to_speech"

\* C11: when the translation stage starts with an empty original_text or an
\* empty target_language, it returns at once with a non-empty error_message,
\* the translation provider is not called, no chunk is read, and the run is
\* at END, where nothing more happens.
C11_TranslatePreconditions ==
  [][/\ ( /\ pc = "translate_text" /\ tpc = "idle"
          /\ \/ ~Truthy(Get(nodeInput, "original_text"))
             \/ ~Truthy(Get(nodeInput, "target_language")) ) =>
          /\ pc' = "__end__"
          /\ tpc' = "idle"
          /\ calls' = calls
          /\ delivered' = delivered
          /\ Len(updates') = Len(updates) + 1
          /\ Truthy(updates'[Len(updates')].output["error_message"])
          /\ Truthy(Get(state', "error_message"))
     /\ pc = "__end__" => UNCHANGED vars]_vars

C11_Witness ==
  /\ ran = <<"translate_text">>
  /\ ~Truthy(Get(state, "original_text"))
  /\ Truthy(Get(state, "target_language"))
  /\ Truthy(Get(state, "error_message"))
  /\ pc = "__end__"

\* C12: in a run whose target_language is not a key of the table, audio_bytes
\* never holds audio and the speech provider is never called; if the
\* synthesis stage is reached, its output is an error_message and nothing
\* else.
C12_UnsupportedLanguage ==
  ~IsSupportedLanguage(Get(state, "target_language")) =>
    /\ ~Truthy(Get(state, "audio_bytes"))
    /\ calls.speech = 0
    /\ "text_to_speech" \in Range(ran) =>
         /\ DOMAIN updates[Len(updates)].output = {"error_message"}
         /\ Truthy(updates[Len(updates)].output["error_message"])
         /\ Truthy(Get(state, "error_message"))

C12_Witness ==
  /\ Get(state, "target_language") = Str(<<"Klingon">>)
  /\ ran = StageOrder
  /\ pc = "__end__"
  /\ speechOutcome.reason = "SynthesizingAudioCompleted"

\* C13: a step of the synthesis stage whose input lacks translated_text gives
\* the "text is missing" message whatever the language is; with text but no
\* target_language it gives the "language is missing" message; with both but
\* a language outside the table it gives a third message, different from the
\* other two.  In all three cases the output holds error_message only, no
\* audio is in the state afterwards and the speech provider is not called.
C13_TextMissing == Str(<<"Translated text is missing for speech synthesis.">>)
C13_LanguageMissing == Str(<<"Target language is missing for speech synthesis.">>)
C13_PreconditionFails(s) ==
  \/ ~Truthy(Get(s, "translated_text"))
  \/ ~Truthy(Get(s, "target_language"))
  \/ ~IsSupportedLanguage(Get(s, "target_language"))
C13_ExpectedMessage(s, msg) ==
  IF ~Truthy(Get(s, "translated_text")) THEN msg = C13_TextMissing
  ELSE IF ~Truthy(Get(s, "target_language")) THEN msg = C13_LanguageMissing
  ELSE /\ msg \notin {C13_TextMissing, C13_LanguageMissing}
       /\ Truthy(msg)
C13_SpeechPreconditionOrder ==
  [][(pc = "text_to_speech" /\ pc' # "raised" /\ C13_PreconditionFails(nodeInput)) =>
       /\ Len(updates') = Len(updates) + 1
       /\ DOMAIN updates'[Len(updates')].output = {"error_message"}
       /\ C13_ExpectedMessage(nodeInput, updates'[Len(updates')].output["error_message"])
       /\ C13_TextMissing # C13_LanguageMissing
       /\ ~Truthy(Get(state', "audio_bytes"))
       /\ calls' = calls]_vars

C13_Witness ==
  /\ ran = <<"text_to_speech">>
  /\ pc = "__end__"
  /\ ~Truthy(Get(state, "translated_text"))
  /\ ~Truthy(Get(state, "target_language"))
  /\ Get(state, "error_message") = C13_TextMissing

\* C14: once speak_text_async has returned a result, the output of the
\* synthesis stage is decided by the result's reason.  Completed: audio_bytes
\* is the provider's audio and error_message is None.  Canceled: audio_bytes
\* is None and error_message names the cancellation reason, followed by the
\* provider's error detail exactly when that reason is Error.  Any other
\* reason: audio_bytes is None and error_message contains the reason.
C14_SpeechReturned ==
  /\ Len(ran) = 3
  /\ calls.speech = 1
  /\ speechOutcome.speak = "ok"
C14_LastOutput == updates[Len(updates)].output
C14_ReasonOutcome ==
  C14_SpeechReturned =>
    LET out == C14_LastOutput
        sb == speechOutcome
        msg == out["error_message"]
    IN  /\ DOMAIN out = {"audio_bytes", "error_message"}
        /\ sb.reason = "SynthesizingAudioCompleted" =>
             /\ out["audio_bytes"] = Bytes(sb.audio)
             /\ msg = None
        /\ sb.reason = "Canceled" =>
             /\ out["audio_bytes"] = None
             /\ msg # None /\ Len(msg.v) >= 2
             /\ msg.v[2] = sb.cancel
             /\ sb.cancel = "Error" <=> Len(msg.v) > 2
             /\ sb.cancel = "Error" =>
                  /\ msg.v[3] = " - Error details: "
                  /\ SubSeq(msg.v, 4, Len(msg.v)) = sb.details
        /\ sb.reason \notin {"SynthesizingAudioCompleted", "Canceled"} =>
             /\ out["audio_bytes"] = None
             /\ msg # None
             /\ sb.reason \in Range(msg.v)

C14_Witness ==
  /\ C14_SpeechReturned
  /\ pc = "__end__"
  /\ speechOutcome.reason = "Canceled"
  /\ speechOutcome.cancel = "EndOfStream"
  /\ speechOutcome.details = <<"boom">>
  /\ Get(state, "error_message") = Str(<<"Speech synthesis canceled: ", "EndOfStream">>)

\* C15: the updates that give audio_bytes a value are at most one, that one
\* comes from text_to_speech and from a synthesis the provider reported as
\* Completed; in every state where this has not happened (before synthesis,
\* after a failed precondition, a cancellation, an unknown reason or an
\* exception) audio_bytes holds no value.
C15_GivesAudio(u) ==
  /\ "audio_bytes" \in DOMAIN u.output
  /\ u.output["audio_bytes"] # None
C15_AudioSetOnce ==
  /\ Cardinality({i \in DOMAIN updates : C15_GivesAudio(updates[i])}) <= 1
  /\ \A i \in DOMAIN updates :
       C15_GivesAudio(updates[i]) =>
         /\ updates[i].node = "text_to_speech"
         /\ i = Len(updates)
         /\ SpeechCompleted(speechOutcome)
         /\ calls.speech = 1
  /\ ~( /\ pc = "__end__"
        /\ ran = StageOrder
        /\ SpeechCallsProvider(nodeInput, speechOutcome)
        /\ SpeechCompleted(speechOutcome) ) =>
       Get(state, "audio_bytes") = None

C15_Witness ==
  /\ pc = "__end__"
  /\ SpeechCompleted(speechOutcome)
  /\ Get(state, "audio_bytes") = Bytes(<<"mp3">>)
  /\ \E i \in DOMAIN updates : C15_GivesAudio(updates[i])

\* C16: in a run, no stage raises into the runner, whatever the providers do
\* (client construction or a call raising included): the run is never in the
\* "raised" position, and every stage that has finished has handed the
\* runner an output.
C16_NoEscape ==
  /\ pc # "raised"
  /\ twinPc # "raised"
  /\ tpc = "idle" => \A i \in DOMAIN ran : \E j \in DOMAIN updates : updates[j].node = ran[i]

C16_Witness ==
  /\ pc = "__end__"
  /\ modOutcome.client = "raises"
  /\ speechOutcome.speak = "raises"
  /\ ran = StageOrder
  /\ Get(state, "error_message") = Str(<<"Text-to-speech failed: ", "boom">>)

\* C17 (as stated): every terminal state that is not a full success
\* (translated_text non-empty, audio_bytes set, error_message empty) carries
\* a non-empty error_message.
C17_FullSuccess(s) ==
  /\ Truthy(Get(s, "translated_text"))
  /\ Truthy(Get(s, "audio_bytes"))
  /\ ~Truthy(Get(s, "error_message"))
C17_PartialSuccess(s) ==
  /\ Truthy(Get(s, "translated_text"))
  /\ ~Truthy(Get(s, "audio_bytes"))
C17_Failure(s) ==
  /\ ~Truthy(Get(s, "translated_text"))
  /\ ~Truthy(Get(s, "audio_bytes"))
C17_NonSuccessHasError ==
  (pc = "__end__" /\ ~C17_FullSuccess(state)) => Truthy(Get(state, "error_message"))

\* C17 (amended): every terminal state is exactly one of full success,
\* partial success and failure by its fields, and every terminal state that is
\* not a full success carries a non-empty error_message, except the state
\* reached when the translation stream ends without having delivered any
\* content: there translated_text is empty, audio_bytes is unset and
\* error_message is None.
C17_EmptyTranslation ==
  /\ streamEnd = "exhausted"
  /\ Concat(delivered) = <<>>
C17_TerminalStates ==
  pc = "__end__" =>
    /\ \/ C17_FullSuccess(state)
       \/ C17_PartialSuccess(state) /\ Truthy(Get(state, "error_message"))
       \/ C17_Failure(state)
    /\ (~C17_FullSuccess(state) /\ ~C17_EmptyTranslation) =>
         Truthy(Get(state, "error_message"))
    /\ C17_EmptyTranslation =>
         /\ C17_Failure(state)
         /\ Get(state, "translated_text") = Str(<<>>)
         /\ Get(state, "error_message") = None
         /\ ran = <<"content_safety_check", "translate_text">>

C17_Witness ==
  /\ pc = "__end__"
  /\ C17_EmptyTranslation
  /\ calls.translation = 1
  /\ Get(state, "is_safe") = Bool(TRUE)
  /\ Get(state, "error_message") = None
  /\ ~Truthy(Get(state, "translated_text"))

\* C18: every run ends at END: a run that is not at END can take a step, and
\* each step lowers a natural number, the steps left, so no run goes on for
\* ever.  At most three stages are executed, so the step ceiling is never
\* reached, and the updates are finitely many (one per content chunk, plus
\* one per stage that returns).
C18_StepsLeft ==
  (3 - Len(ran)) * (MaxChunks + 2)
    + (IF tpc = "loop" THEN MaxChunks + 1 - Len(delivered) ELSE 0)
C18_Bounded ==
  /\ Len(ran) <= 3
  /\ Len(ran) < RecursionLimit
  /\ Len(updates) <= Len(ContentChunks(delivered)) + Len(ran)
  /\ C18_StepsLeft >= 0
  /\ pc = "__end__" \/ ENABLED Next
C18_Terminates ==
  /\ []C18_Bounded
  /\ [][C18_StepsLeft' < C18_StepsLeft]_vars

C18_Witness ==
  /\ pc = "__end__"
  /\ Len(ran) = 3
  /\ Len(delivered) = MaxChunks
  /\ Len(updates) = MaxChunks + 3

\* C19: two runs on the same inputs and the same provider behaviours, one in
\* each mode, are always at the same node and have produced updates from the
\* same nodes in the same order; when they are at END, the caller's
\* accumulation of the stream run's updates, started from an empty dict,
\* reads the same is_safe, translated_text, audio_bytes and error_message as
\* the state the invoke run returns.
C19_StreamUpdates == IF mode = "stream" THEN updates ELSE twinUpdates
C19_InvokeState == IF mode = "invoke" THEN state ELSE twinState
C19_Nodes(events) == [i \in DOMAIN events |-> events[i].node]
C19_ModesAgree ==
  /\ pc = twinPc
  /\ C19_Nodes(updates) = C19_Nodes(twinUpdates)
  /\ pc = "__end__" =>
       \A k \in {"is_safe", "translated_text", "audio_bytes", "error_message"} :
         Get(AccumulatedGraphState(C19_StreamUpdates), k) = Get(C19_InvokeState, k)

C19_Witness ==
  /\ pc = "__end__"
  /\ ran = StageOrder
  /\ Len(ContentChunks(delivered)) >= 2
  /\ "original_text" \notin DOMAIN AccumulatedGraphState(C19_StreamUpdates)
  /\ Get(AccumulatedGraphState(C19_StreamUpdates), "audio_bytes") = Bytes(<<"mp3">>)
  /\ Get(C19_InvokeState, "translated_text") = Str(Concat(delivered))

\* C21: in a run, analyze_text, the translation request and speak_text_async
\* are each called at most once; a step that calls a provider is the first
\* call of that provider in the run, whether or not an earlier stage failed.
C21_Providers == {"moderation", "translation", "speech"}
C21_NoRetries ==
  /\ [](\A p \in C21_Providers : calls[p] <= 1)
  /\ [][\A p \in C21_Providers : calls'[p] # calls[p] => (calls[p] = 0 /\ calls'[p] = 1)]_vars

C21_Witness ==
  /\ pc = "__end__"
  /\ modOutcome.analyze = "raises"
  /\ streamEnd = "raised"
  /\ calls = [moderation |-> 1, translation |-> 1, speech |-> 0]

C23_CallerKeys == {"original_text", "target_language"}
C23_InputsImmutable ==
  /\ [][\A k \in C23_CallerKeys :
          /\ k \in DOMAIN state' /\ state'[k] = state[k]
          /\ k \in DOMAIN twinState' /\ twinState'[k] = twinState[k]]_vars
  /\ [](\A i \in DOMAIN updates : DOMAIN updates[i].output \cap C23_CallerKeys = {})

C23_Witness ==
  /\ pc = "__end__"
  /\ ran = StageOrder
  /\ Len(updates) >= 4
  /\ state["original_text"] = Str(<<"Hello">>)
  /\ state["target_language"] = Str(<<"Spanish">>)

\* C24: a step of the translation stage or of the synthesis stage, whether it
\* succeeds or fails, leaves is_safe as the safety stage set it, and no
\* output of those stages has an is_safe key; only the safety stage's output
\* has one.
C24_IsSafeFrame ==
  /\ [][(pc \in {"translate_text", "text_to_speech"}) =>
          /\ Get(state', "is_safe") = Get(state, "is_safe")
          /\ Get(twinState', "is_safe") = Get(twinState, "is_safe")]_vars
  /\ [](\A i \in DOMAIN updates :
          "is_safe" \in DOMAIN updates[i].output <=>
            updates[i].node = "content_safety_check")

C24_Witness ==
  /\ pc = "__end__"
  /\ ran = StageOrder
  /\ streamEnd = "exhausted"
  /\ speechOutcome.speak = "raises"
  /\ Get(state, "is_safe") = Bool(TRUE)
  /\ Truthy(Get(state, "error_message"))

\* C25: whenever the state of a run holds a non-empty error_message the run
\* is at END, and from such a state no step starts a stage, calls a provider,
\* produces an update or changes the state, so the message is neither
\* cleared nor replaced.
C25_HasError == Truthy(Get(state, "error_message"))
C25_ErrorAbsorbing ==
  /\ [](C25_HasError => (pc = "__end__" /\ tpc = "idle"))
  /\ [][C25_HasError => UNCHANGED <<state, ran, calls, updates, pc>>]_vars

C25_Witness ==
  /\ C25_HasError
  /\ RespondsWithSeverity(modOutcome)
  /\ ran = <<"content_safety_check">>
  /\ calls = [moderation |-> 1, translation |-> 0, speech |-> 0]

\* C26: in every state of a run where audio_bytes holds audio, is_safe is
\* True, translated_text is non-empty, error_message is empty and
\* target_language is a key of the supported-language table.
C26_AudioImplies ==
  Truthy(Get(state, "audio_bytes")) =>
    /\ Get(state, "is_safe") = Bool(TRUE)
    /\ Truthy(Get(state, "translated_text"))
    /\ ~Truthy(Get(state, "error_message"))
    /\ Get(state, "target_language").v[1] \in DOMAIN SUPPORTED_LANGUAGES_VOICES

C26_Witness ==
  /\ Truthy(Get(state, "audio_bytes"))
  /\ Get(state, "target_language") = Str(<<"French">>)
  /\ modOutcome.analyze = "raises"
  /\ Get(state, "translated_text") = Str(<<"b">>)

\* C27: the output of the safety stage has is_safe True or False, is_safe is
\* False exactly when the output's error_message is non-empty, and the output
\* after a moderation side that failed (client construction, analysis or the
\* reading of the result raised) is the same dict as after a response with
\* no category above 0: is_safe True, error_message None.
C27_FailedOpen(mb) ==
  mb.client = "raises" \/ mb.analyze = "raises" \/ mb.parse = "raises"
C27_SafetyResult ==
  Len(updates) >= 1 =>
    LET out == SafetyOutput IN
      /\ updates[1].node = "content_safety_check"
      /\ DOMAIN out = {"is_safe", "error_message"}
      /\ out["is_safe"] \in {Bool(TRUE), Bool(FALSE)}
      /\ out["is_safe"] = Bool(FALSE) <=> Truthy(out["error_message"])
      /\ (C27_FailedOpen(modOutcome) \/ ModerationClean(modOutcome)) =>
           out = [k \in {"is_safe", "error_message"} |->
                    IF k = "is_safe" THEN Bool(TRUE) ELSE None]

C27_Witness ==
  /\ Len(updates) = 1
  /\ modOutcome.parse = "raises"
  /\ SafetyOutput["is_safe"] = Bool(TRUE)
  /\ SafetyOutput["error_message"] = None

\* C28: whenever the handler of the button is not running, after any number
\* of clicks and whatever the run of a click did, a non-empty error_message
\* in the session comes with an empty translation and with audio_bytes None.
C28_SessionConsistent ==
  (ui = "idle" /\ Truthy(session.error_message)) =>
    /\ session.translation = Str(<<>>)
    /\ session.audio_bytes = None

C28_Witness ==
  /\ ui = "idle"
  /\ session.error_message = Str(<<"Text-to-speech failed: ", "boom">>)
  /\ session.translation = Str(<<>>)
  /\ session.user_prompt_main = Str(<<"Hello">>)

\* C29: a click with an empty prompt records the error "Please enter some
\* text to translate.", leaves the translation empty and audio_bytes None,
\* and starts no run: the handler is over at once, no stage is started, no
\* update is produced and no provider is called; a run is never in progress
\* for an empty prompt.
C29_NoCalls == [moderation |-> 0, translation |-> 0, speech |-> 0]
C29_EmptyPrompt ==
  /\ [][(ui = "idle" /\ session'.user_prompt_main = Str(<<>>)) =>
          /\ session'.error_message = Str(<<"Please enter some text to translate.">>)
          /\ session'.translation = Str(<<>>)
          /\ session'.audio_bytes = None
          /\ ui' = "idle"
          /\ ran' = <<>> /\ updates' = <<>> /\ calls' = C29_NoCalls
          /\ pc' = "__end__"]_vars
  /\ [](ui = "running" => session.user_prompt_main # Str(<<>>))

C29_Witness ==
  /\ ui = "idle"
  /\ session.user_prompt_main = Str(<<>>)
  /\ session.target_language_name_main = Str(<<"Japanese">>)
  /\ session.error_message = Str(<<"Please enter some text to translate.">>)
  /\ ran = <<>>
  /\ calls = C29_NoCalls

\* C30: a step of the synthesis stage leaves translated_text and is_safe as
\* they were, and a run whose synthesis stage failed (language outside the
\* table, no speech configuration or synthesizer, cancellation, unexpected
\* reason, exception) ends with the translation the stream delivered, is_safe
\* True, audio_bytes holding nothing and a non-empty error_message.
C30_SynthesisFailed ==
  /\ ran = StageOrder
  /\ ~( /\ IsSupportedLanguage(Get(state, "target_language"))
        /\ SpeechCompleted(speechOutcome) )
C30_TranslatedNotSpoken ==
  /\ [][(pc = "text_to_speech") =>
          /\ Get(state', "translated_text") = Get(state, "translated_text")
          /\ Get(state', "is_safe") = Get(state, "is_safe")]_vars
  /\ [](C30_SynthesisFailed =>
          /\ pc = "__end__"
          /\ Truthy(Get(state, "translated_text"))
          /\ Get(state, "translated_text") = Str(Concat(delivered))
          /\ Get(state, "is_safe") = Bool(TRUE)
          /\ ~Truthy(Get(state, "audio_bytes"))
          /\ Truthy(Get(state, "error_message")))

C30_Witness ==
  /\ C30_SynthesisFailed
  /\ speechOutcome.config = "none"
  /\ Get(state, "translated_text") = Str(<<"b", "a">>)
  /\ Get(state, "error_message") = Str(<<"Speech config not available for TTS.">>)

====
